---- MODULE Spec2Model ----
(***************************************************************************)
(* Model of the Klanavo API service (api/main.py): the global rate-limit   *)
(* middleware, the disk cache with its size limit, and the cache-bearing   *)
(* endpoints /inserate, /proxy and /ors.                                   *)
(*                                                                         *)
(* Time is counted in ticks of 1/TicksPerSecond seconds, sizes in GiB.     *)
(* Python strings are sequences of one-character strings.                  *)
(*                                                                         *)
(* The specifications share the state and the code of the program:         *)
(*   Spec      the endpoints and the cache, with requests that arrive once *)
(*             the rate interval has passed, so that none waits;           *)
(*   GateSpec  the rate-limit middleware under requests that arrive at any *)
(*             time, up to the hand-over to the endpoint (call_next);      *)
(*   KeySpec   _cache_key applied to pairs of mappings;                    *)
(*   ExtractSpec  parse_listing_details applied to listing documents;      *)
(*   RouteSpec the fan-out and merge of a route search;                    *)
(*   StatsSpec the visitor count of the /stats endpoint.                   *)
(***************************************************************************)
EXTENDS Integers, Sequences, FiniteSets, TLC

\* ------------------------------------------------------------------------
\* Bounds of the model
\* ------------------------------------------------------------------------
\* Number of requests that can be in the middleware at the same time.
NumSlots == 3
\* Number of requests that arrive at the middleware in one run of GateSpec.
MaxRequests == 4
\* Number of requests whose endpoints can run at the same time in Spec.
MaxHandlers == 2
\* Number of requests that arrive in one run of Spec.
MaxHandled == 3
\* Last tick at which the clock advances while nobody sleeps in the gate.
MaxTime == 2
\* Clock ticks per second.
TicksPerSecond == 2
\* Largest number of key/value pairs of a mapping given to _cache_key.
MaxPairs == 2

\* ------------------------------------------------------------------------
\* Python values handed to json.dumps: None, int, str, dict
\* ------------------------------------------------------------------------
None == [t |-> "null", s |-> <<>>, n |-> 0, d |-> <<>>]
PyInt(i) == [t |-> "int", s |-> <<>>, n |-> i, d |-> <<>>]
PyStr(chars) == [t |-> "str", s |-> chars, n |-> 0, d |-> <<>>]
\* A dict is the sequence of its <<key, value>> items in insertion order.
PyDict(items) == [t |-> "dict", s |-> <<>>, n |-> 0, d |-> items]
\* A list is the sequence of its elements.
PyList(elems) == [t |-> "list", s |-> <<>>, n |-> 0, d |-> elems]

\* The characters the model uses, in code-point order.
Alphabet ==
    << "\"", ",", "/", "0", "1", "2", "3", "4", "5", "6", "7", "8", "9", ":",
       "E", "G", "T", "\\", "_", "a", "b", "c", "d", "e", "g", "h", "i", "l",
       "m", "n", "o", "p", "q", "r", "s", "t", "u", "x", "y", "{", "}" >>

ord(c) == CHOOSE i \in 1..Len(Alphabet) : Alphabet[i] = c

\* Python's str comparison a < b: lexicographic by code point.
RECURSIVE StrLess(_, _)
StrLess(a, b) ==
    IF b = <<>> THEN FALSE
    ELSE IF a = <<>> THEN TRUE
    ELSE IF Head(a) = Head(b) THEN StrLess(Tail(a), Tail(b))
    ELSE ord(Head(a)) < ord(Head(b))

\* json.encoder: a str as a JSON string literal, quote and backslash escaped.
RECURSIVE EscapeChars(_)
EscapeChars(chars) ==
    IF chars = <<>> THEN <<>>
    ELSE (IF Head(chars) \in {"\"", "\\"} THEN <<"\\", Head(chars)>>
          ELSE <<Head(chars)>>) \o EscapeChars(Tail(chars))

EncodeStr(chars) == <<"\"">> \o EscapeChars(chars) \o <<"\"">>

\* json.encoder: an int as its decimal digits.
Digit(i) == <<"0", "1", "2", "3", "4", "5", "6", "7", "8", "9">>[i + 1]
RECURSIVE EncodeNat(_)
EncodeNat(i) == IF i < 10 THEN <<Digit(i)>> ELSE EncodeNat(i \div 10) \o <<Digit(i % 10)>>

\* sort_keys=True: the items of a dict in ascending order of their keys.
RECURSIVE SortItems(_)
SortItems(items) ==
    IF items = <<>> THEN <<>>
    ELSE LET m == CHOOSE i \in 1..Len(items) :
                    \A j \in 1..Len(items) : ~StrLess(items[j][1], items[i][1])
             rest == [k \in 1..(Len(items) - 1) |-> IF k < m THEN items[k] ELSE items[k + 1]]
         IN <<items[m]>> \o SortItems(rest)

InsertionOrder(items) == items

\* The order in which json.dumps(obj, sort_keys=True) emits the items.
DumpOrder(items) == SortItems(items)

\* json.dumps(obj, sort_keys=True, separators=(",", ":")) as a character
\* sequence.
RECURSIVE dumps(_)
RECURSIVE DumpItems(_)
dumps(v) ==
    CASE v.t = "null" -> <<"n", "u", "l", "l">>
      [] v.t = "int" -> EncodeNat(v.n)
      [] v.t = "str" -> EncodeStr(v.s)
      [] v.t = "dict" -> <<"{">> \o DumpItems(DumpOrder(v.d)) \o <<"}">>

DumpItems(items) ==
    IF items = <<>> THEN <<>>
    ELSE EncodeStr(items[1][1]) \o <<":">> \o dumps(items[1][2])
         \o (IF Len(items) > 1 THEN <<",">> ELSE <<>>) \o DumpItems(Tail(items))

\* hashlib.sha256(data).hexdigest(): the digest is taken to be injective, so
\* it is the tagged input.
sha256(data) == <<"sha256", data>>

\* _cache_key(obj)
_cache_key(obj) == sha256(dumps(obj))

\* _cache_path(prefix, key): CACHE_DIR / f"{prefix}_{key}.json"
_cache_path(prefix, key) == <<prefix, key>>

\* ------------------------------------------------------------------------
\* Program constants
\* ------------------------------------------------------------------------
\* RATE_LIMIT_SECONDS = 1.0
RATE_LIMIT_SECONDS == 1
\* CACHE_LIMIT = 8 * 1024**3 bytes, in GiB
CACHE_LIMIT == 8

\* RATE_LIMIT_SECONDS on the model's clock.
RateLimitTicks == RATE_LIMIT_SECONDS * TicksPerSecond

\* ------------------------------------------------------------------------
\* Requests and their inputs
\* ------------------------------------------------------------------------
Slots == 1..NumSlots

\* The routes of the application that the model covers.
Endpoints == {"health", "inserate", "proxy", "ors"}

\* Sizes (GiB) of the bodies the scraper and the upstream services return:
\* two of the smallest fill the cache to its limit, the middle one is another
\* answer to the same request, the largest exceeds the limit alone.
BodySizes == {4, 5, 9}

NoBody == [kind |-> "none", size |-> 0]
JsonBody(n) == [kind |-> "json", size |-> n]
TextBody(n) == [kind |-> "text", size |-> n]
\* The content of a file that does not parse.
Garbage(n) == [kind |-> "garbage", size |-> n]

\* Search terms of /inserate requests.
Queries == {<<"a">>, <<"b">>}

\* inserate: cache_params, built in this order from the request.
InserateCacheParams(query) ==
    PyDict(<< << <<"q", "u", "e", "r", "y">>, PyStr(query) >>,
              << <<"l", "o", "c", "a", "t", "i", "o", "n">>, PyStr(<<"1">>) >>,
              << <<"r", "a", "d", "i", "u", "s">>, PyInt(10) >>,
              << <<"m", "i", "n", "_", "p", "r", "i", "c", "e">>, None >>,
              << <<"m", "a", "x", "_", "p", "r", "i", "c", "e">>, None >>,
              << <<"p", "a", "g", "e", "_", "c", "o", "u", "n", "t">>, PyInt(1) >> >>)

\* inserate: cache_file = _cache_path("inserate", _cache_key(cache_params))
InserateFile ==
    [q \in Queries |-> _cache_path("inserate", _cache_key(InserateCacheParams(q)))]

\* Query strings of /ors requests, as dict(request.query_params) sees them:
\* the same two parameters in either order.
OrsQueries ==
    { << << <<"a">>, PyStr(<<"1">>) >>, << <<"b">>, PyStr(<<"2">>) >> >>,
      << << <<"b">>, PyStr(<<"2">>) >>, << <<"a">>, PyStr(<<"1">>) >> >> }

\* ors_proxy: cache_params for path "x", method GET and an empty body.
OrsCacheParams(query) ==
    PyDict(<< << <<"p", "a", "t", "h">>, PyStr(<<"x">>) >>,
              << <<"m", "e", "t", "h", "o", "d">>, PyStr(<<"G", "E", "T">>) >>,
              << <<"q", "u", "e", "r", "y">>, PyDict(query) >>,
              << <<"b", "o", "d", "y">>, PyStr(<<>>) >> >>)

\* ors_proxy: cache_file = _cache_path("ors", _cache_key(cache_params))
OrsFile ==
    [q \in OrsQueries |-> _cache_path("ors", _cache_key(OrsCacheParams(q)))]

\* Targets of /proxy requests: the URL u, the host httpx.URL(u) parses from
\* it, and the kind of address the host resolves to.
ProxyTargets ==
    { [u |-> <<"n", "/", "s">>, host |-> "nominatim.openstreetmap.org", dns |-> "public"],
      [u |-> <<"e", "/", "t">>, host |-> "example.com", dns |-> "public"],
      [u |-> <<"e", "/">>, host |-> "example.com", dns |-> "private"],
      [u |-> <<"b", "/", "t">>, host |-> "blocked.example", dns |-> "public"] }

\* proxy: the mapping hashed for the nominatim cache.
ProxyCacheParams(u) == PyDict(<< << <<"u", "r", "l">>, PyStr(u) >> >>)

\* No cache file: the value of cache_file when it is None.
NoFile == <<>>

\* proxy: cache_file, set for the nominatim host only.
ProxyFile ==
    [tg \in ProxyTargets |->
        IF tg.host = "nominatim.openstreetmap.org"
        THEN _cache_path("nominatim", _cache_key(ProxyCacheParams(tg.u)))
        ELSE NoFile]

\* PROXY_ALLOW_HOSTS as the proxy tests set it.
PROXY_ALLOW_HOSTS == {"example.com"}

\* A request in flight: where it is and the locals of its handler.
IdleRequest ==
    [pc |-> "idle", endpoint |-> "none", wake_at |-> 0, cache_file |-> NoFile,
     host |-> "", dns |-> "", bad_entry |-> FALSE]

\* The response a step returned to the caller, with what the handler did for
\* it: whether it issued an outbound call, whether it served a cache entry,
\* whether it found the entry unreadable, whether its cache write failed.
NoResponse ==
    [endpoint |-> "none", cache_file |-> NoFile, host |-> "", dns |-> "",
     status |-> 0, body |-> NoBody, fetched |-> FALSE, from_cache |-> FALSE,
     bad_entry |-> FALSE, write_error |-> FALSE, browser |-> ""]

\* What the scraper does: raises, or returns listings of some size.
ScraperOutcomes ==
    {[raised |-> TRUE, status |-> 0, body |-> NoBody]}
    \cup {[raised |-> FALSE, status |-> 200, body |-> JsonBody(n)] : n \in BodySizes}

\* What the HTTP client does: raises, or returns a response.
HttpOutcomes ==
    {[raised |-> TRUE, status |-> 0, body |-> NoBody]}
    \cup {[raised |-> FALSE, status |-> 200, body |-> JsonBody(n)] : n \in BodySizes}
    \cup {[raised |-> FALSE, status |-> 200, body |-> TextBody(4)],
          [raised |-> FALSE, status |-> 404, body |-> JsonBody(4)]}

\* ------------------------------------------------------------------------
\* State
\* ------------------------------------------------------------------------
VARIABLES
    now,                \* time.monotonic(), in ticks
    _last_request,      \* _last_request
    rate_locked,        \* _rate_lock: whether the lock is held
    rate_waiters,       \* _rate_lock: the requests waiting for it, first come first
    req,                \* the requests in flight, by slot
    arrived,            \* number of requests received so far
    cache,              \* CACHE_DIR: file name -> [content, mtime]
    wall,               \* the clock that stamps st_mtime
    cache_hits_total,   \* cache_hits_total
    cache_misses_total, \* cache_misses_total
    browser_manager,    \* browser_manager: "None" or "started"
    ors_api_key,        \* os.getenv("ORS_API_KEY"): "" when not set
    admissions,         \* history: the last two values written to _last_request
    put_trace,          \* history: what the cache write of the last step did
    response,           \* history: the response the last step returned
    key_in,             \* the two mappings given to _cache_key
    key_out,            \* the two keys _cache_key returned for them
    ext_in,             \* the document given to parse_listing_details
    ext_out,            \* what parse_listing_details returned for it
    route_codes,        \* route search: the unique postal codes of the route
    route_todo,         \* route search: the postal codes still to be scraped
    route_called,       \* route search: the postal codes the scraper was called for
    route_log,          \* history: the listings the scraper returned, in merge order
    route_merged,       \* route search: the merged listings
    route_pc,           \* route search: where the request is
    stats_visitors,     \* _stats["visitors"]
    stats_seen,         \* history: the client addresses of the /stats requests
    stats_reply,        \* the visitors value the last /stats request reported
    stats_last,         \* the header and client host of the last /stats request
    stats_count         \* number of /stats requests so far

vars ==
    << now, _last_request, rate_locked, rate_waiters, req, arrived, cache, wall,
       cache_hits_total, cache_misses_total, browser_manager, ors_api_key,
       admissions, put_trace, response, key_in, key_out, ext_in, ext_out,
       route_codes, route_todo, route_called, route_log, route_merged, route_pc,
       stats_visitors, stats_seen, stats_reply, stats_last, stats_count >>

gate_vars == << _last_request, rate_locked, rate_waiters, admissions >>
cache_vars == << cache, wall, cache_hits_total, cache_misses_total >>
env_vars == << browser_manager, ors_api_key >>
key_vars == << key_in, key_out >>
ext_vars == << ext_in, ext_out >>
route_vars == << route_codes, route_todo, route_called, route_log, route_merged,
                route_pc >>
stats_vars == << stats_visitors, stats_seen, stats_reply, stats_last, stats_count >>
\* The state of the parts that the gate and the cache endpoints do not touch.
side_vars == << key_vars, ext_vars, route_vars, stats_vars >>

\* ------------------------------------------------------------------------
\* The disk cache
\* ------------------------------------------------------------------------
Files(c) == DOMAIN c

RECURSIVE SumSizes(_, _)
SumSizes(c, fs) ==
    IF fs = {} THEN 0
    ELSE LET f == CHOOSE g \in fs : TRUE IN c[f].content.size + SumSizes(c, fs \ {f})

\* _current_cache_size(): the sum of st_size over CACHE_DIR.glob("*.json")
_current_cache_size(c) == SumSizes(c, Files(c))

\* p.unlink()
Remove(c, f) == [g \in Files(c) \ {f} |-> c[g]]

\* The write leaves the directory as it was.
WriteNothing(c, f, content, t) == c

\* cache_file.write_text / write_bytes: the file holds the content and is
\* stamped with the time t.
WriteFile(c, f, content, t) ==
    [g \in Files(c) \cup {f} |-> IF g = f THEN [content |-> content, mtime |-> t] ELSE c[g]]

\* Reading the file stamps it with the time t.
touch_file(c, f, t) == [c EXCEPT ![f].mtime = t]

\* cache_file.read_text / read_bytes: the directory, the content of the file
\* and its modification time stay as they are.
read_file(c, f, t) == c

\* The orders of the files of c.
Orders(c) ==
    {o \in [1..Cardinality(Files(c)) -> Files(c)] :
        \A i, j \in 1..Cardinality(Files(c)) : i # j => o[i] # o[j]}

\* The files sorted the other way round, newest first.
NewestFirst(c, order) ==
    \A i, j \in 1..Len(order) : i < j => c[order[i]].mtime >= c[order[j]].mtime

\* sorted(..., key=lambda p: p.stat().st_mtime): ascending modification time.
\* The order of files of equal mtime is that of the directory listing, which
\* is any order.
IsSortedByMtime(c, order) ==
    \A i, j \in 1..Len(order) : i < j => c[order[i]].mtime <= c[order[j]].mtime

SortedByMtime(c) == {o \in Orders(c) : IsSortedByMtime(c, o)}

\* The test of the eviction loop on size: size > CACHE_LIMIT
OverLimit(size) == size > CACHE_LIMIT

\* The eviction loop run at most once (an "if" in place of the "while").
EvictOnce(c, files, size, evicted) ==
    IF OverLimit(size) /\ files # <<>>
    THEN [cache |-> Remove(c, Head(files)), evicted |-> Append(evicted, Head(files))]
    ELSE [cache |-> c, evicted |-> evicted]

\* while size > CACHE_LIMIT and files: p = files.pop(0);
\*     size -= p.stat().st_size; p.unlink()
RECURSIVE EvictLoop(_, _, _, _)
EvictLoop(c, files, size, evicted) ==
    IF OverLimit(size) /\ files # <<>>
    THEN EvictLoop(Remove(c, Head(files)), Tail(files),
                   size - c[Head(files)].content.size, Append(evicted, Head(files)))
    ELSE [cache |-> c, evicted |-> evicted]

\* _enforce_cache_limit() on the directory c: the possible results, one for
\* each order the sort can produce.
_enforce_cache_limit(c) ==
    {EvictLoop(c, files, _current_cache_size(c), <<>>) : files \in SortedByMtime(c)}

\* The eviction loop when the file gone has disappeared after the listing
\* was sorted and the sizes were summed: c is the directory without it, files
\* and size still count it.  Its turn in the loop raises OSError at
\* p.stat(), which "except OSError: pass" swallows: nothing is subtracted
\* from size and the loop goes on with the next file.
RECURSIVE EvictLoopRaced(_, _, _, _, _)
EvictLoopRaced(c, files, size, evicted, gone) ==
    IF OverLimit(size) /\ files # <<>>
    THEN IF Head(files) = gone
         THEN EvictLoopRaced(c, Tail(files), size, evicted, gone)
         ELSE EvictLoopRaced(Remove(c, Head(files)), Tail(files),
                             size - c[Head(files)].content.size,
                             Append(evicted, Head(files)), gone)
    ELSE [cache |-> c, evicted |-> evicted]

\* _enforce_cache_limit() on the directory c when another actor deletes the
\* file gone between the size sum and the loop.
EnforceRaced(c, gone) ==
    {EvictLoopRaced(Remove(c, gone), files, _current_cache_size(c), <<>>, gone) :
        files \in SortedByMtime(c)}

EmptyDir == [f \in {} |-> [content |-> NoBody, mtime |-> 0]]

NoPut == [outcome |-> "none", file |-> NoFile, before |-> EmptyDir, evicted |-> <<>>]

\* The cache write of an endpoint:
\*     cache_file.write_...(content); _enforce_cache_limit()
\* with the failures the "except OSError" around it catches.  The results are
\* the directory afterwards and the trace of what happened:
\*   - the write fails before the file is opened: nothing changes;
\*   - the write fails after the file was truncated: an empty file remains;
\*   - a file of the listing is gone when the sort or the size sum stats it:
\*     OSError leaves _enforce_cache_limit before anything is evicted;
\*   - a file of the listing is gone when the loop comes to it: the loop
\*     swallows the OSError and goes on;
\*   - no failure: the file is written and eviction runs.
CachePut(c, f, content, t) ==
    {[cache |-> c,
      trace |-> [outcome |-> "write_failed", file |-> f, before |-> c, evicted |-> <<>>]]}
    \cup
    {[cache |-> WriteFile(c, f, Garbage(0), t),
      trace |-> [outcome |-> "write_failed", file |-> f,
                 before |-> WriteFile(c, f, Garbage(0), t), evicted |-> <<>>]]}
    \cup
    {[cache |-> Remove(WriteFile(c, f, content, t), g),
      trace |-> [outcome |-> "evict_failed", file |-> f,
                 before |-> WriteFile(c, f, content, t), evicted |-> <<>>]]
        : g \in Files(c) \ {f}}
    \cup
    UNION {{[cache |-> r.cache,
             trace |-> [outcome |-> "raced", file |-> f,
                        before |-> WriteFile(c, f, content, t), evicted |-> r.evicted]]
               : r \in EnforceRaced(WriteFile(c, f, content, t), g)}
           : g \in Files(c) \ {f}}
    \cup
    {[cache |-> r.cache,
      trace |-> [outcome |-> "ok", file |-> f,
                 before |-> WriteFile(c, f, content, t), evicted |-> r.evicted]]
        : r \in _enforce_cache_limit(WriteFile(c, f, content, t))}

\* ------------------------------------------------------------------------
\* Initial state
\* ------------------------------------------------------------------------
ProgramInit ==
    /\ now = 0
    /\ _last_request = 0
    /\ rate_locked = FALSE
    /\ rate_waiters = <<>>
    /\ req = [s \in Slots |-> IdleRequest]
    /\ arrived = 0
    /\ cache = EmptyDir
    /\ wall = 0
    /\ cache_hits_total = 0
    /\ cache_misses_total = 0
    /\ browser_manager = "None"
    /\ ors_api_key \in {"", "key"}
    /\ admissions = <<>>
    /\ put_trace = NoPut
    /\ response = NoResponse

\* No mapping has been given to _cache_key.
KeyIdle ==
    /\ key_in = <<None, None>>
    /\ key_out = <<>>

\* A document without any content, and the result before the extractor ran.
NoDocument ==
    [og_title |-> None, title_tag |-> None, og_image |-> None, blocks |-> <<>>,
     text_postal |-> None]
NoDetail ==
    [state |-> "none", title |-> None, image |-> None, postal |-> None,
     city |-> None, price |-> None]

\* parse_listing_details has not been called.
ExtIdle ==
    /\ ext_in = NoDocument
    /\ ext_out = NoDetail

\* No route search is under way.
RouteIdle ==
    /\ route_codes = {}
    /\ route_todo = <<>>
    /\ route_called = <<>>
    /\ route_log = <<>>
    /\ route_merged = <<>>
    /\ route_pc = "idle"

\* _stats as the service starts: no visitor yet.
NoStatsRequest == [header |-> "", host |-> ""]
StatsIdle ==
    /\ stats_visitors = {}
    /\ stats_seen = {}
    /\ stats_reply = 0
    /\ stats_last = NoStatsRequest
    /\ stats_count = 0

Init ==
    /\ ProgramInit
    /\ KeyIdle
    /\ ExtIdle
    /\ RouteIdle
    /\ StatsIdle

\* ------------------------------------------------------------------------
\* The rate-limit middleware
\* ------------------------------------------------------------------------
\* wait = RATE_LIMIT_SECONDS - (now - _last_request), with one tick lost.
wait_time_short(t, last) == RateLimitTicks - (t - last) - 1

\* wait = RATE_LIMIT_SECONDS - (now - _last_request)
wait_time(t, last) == RateLimitTicks - (t - last)

\* The lock is left as it was.
lock_kept(locked) == locked

\* Leaving "async with _rate_lock": the lock is released.
lock_released(locked) == FALSE

\* The sleep runs without the lock.
lock_not_taken(locked) == FALSE

\* Entering "async with _rate_lock": the lock is held.
lock_acquired(locked) == TRUE

RecordAdmission(t) ==
    admissions' = IF Len(admissions) < 2 THEN Append(admissions, t)
                  ELSE <<admissions[2], t>>

\* The body of "async with _rate_lock" up to the first suspension, run at
\* time t by request s once it holds the lock; waiters is the queue without s.
CriticalSection(s, e, t, waiters) ==
    /\ rate_waiters' = waiters
    /\ IF wait_time(t, _last_request) > 0
       THEN /\ req' = [req EXCEPT ![s] =
                 [IdleRequest EXCEPT !.pc = "sleeping", !.endpoint = e,
                                     !.wake_at = t + wait_time(t, _last_request)]]
            /\ rate_locked' = lock_acquired(rate_locked)
            /\ UNCHANGED << _last_request, admissions >>
       ELSE /\ req' = [req EXCEPT ![s] =
                 [IdleRequest EXCEPT !.pc = "admitted", !.endpoint = e]]
            /\ _last_request' = t
            /\ RecordAdmission(t)
            /\ rate_locked' = lock_released(TRUE)

\* The health check is routed around the middleware.
skips_health(e) == e # "health"

\* @app.middleware("http"): _rate_limit wraps every request, whatever its route.
middleware_applies(e) == TRUE

\* _rate_limit, entry, at time t: the lock is taken at once when it is free
\* and nobody waits for it; otherwise the request queues behind the others.
GateEntry(s, e, t) ==
    IF ~middleware_applies(e)
    THEN /\ req' = [req EXCEPT ![s] = [IdleRequest EXCEPT !.pc = "admitted", !.endpoint = e]]
         /\ UNCHANGED << _last_request, rate_locked, rate_waiters, admissions >>
    ELSE IF ~rate_locked /\ rate_waiters = <<>>
    THEN CriticalSection(s, e, t, rate_waiters)
    ELSE /\ req' = [req EXCEPT ![s] = [IdleRequest EXCEPT !.pc = "queued", !.endpoint = e]]
         /\ rate_waiters' = Append(rate_waiters, s)
         /\ UNCHANGED << _last_request, rate_locked, admissions >>

\* Slots are interchangeable: a new request takes the first free one.
FreeSlot(s, max) ==
    /\ arrived < max
    /\ req[s].pc = "idle"
    /\ \A r \in Slots : r < s => req[r].pc # "idle"

\* A request for one of the endpoints arrives, at any time, and enters the
\* middleware.
Arrive(s) ==
    /\ FreeSlot(s, MaxRequests)
    /\ \E e \in Endpoints : GateEntry(s, e, now)
    /\ arrived' = arrived + 1
    /\ put_trace' = NoPut
    /\ response' = NoResponse
    /\ UNCHANGED << now, cache_vars, env_vars, side_vars >>

\* A request arrives once the rate interval since the last admission has
\* passed, and enters the middleware.
ArriveLate(s) ==
    /\ FreeSlot(s, MaxHandled)
    /\ s <= MaxHandlers
    /\ now' = IF now < _last_request + RateLimitTicks
              THEN _last_request + RateLimitTicks ELSE now
    /\ \E e \in Endpoints : GateEntry(s, e, now')
    /\ arrived' = arrived + 1
    /\ put_trace' = NoPut
    /\ response' = NoResponse
    /\ UNCHANGED << cache_vars, env_vars, side_vars >>

\* _rate_limit, the first waiter is resumed after the lock was released.
GateResume(s) ==
    /\ req[s].pc = "queued"
    /\ ~rate_locked
    /\ rate_waiters # <<>>
    /\ Head(rate_waiters) = s
    /\ CriticalSection(s, req[s].endpoint, now, Tail(rate_waiters))
    /\ put_trace' = NoPut
    /\ response' = NoResponse
    /\ UNCHANGED << now, arrived, cache_vars, env_vars, side_vars >>

\* _rate_limit, after "await asyncio.sleep(wait)": the admission is recorded
\* and the lock released.
GateWake(s) ==
    /\ req[s].pc = "sleeping"
    /\ now >= req[s].wake_at
    /\ req' = [req EXCEPT ![s].pc = "admitted", ![s].wake_at = 0]
    /\ _last_request' = now
    /\ RecordAdmission(now)
    /\ rate_locked' = lock_released(rate_locked)
    /\ put_trace' = NoPut
    /\ response' = NoResponse
    /\ UNCHANGED << now, rate_waiters, arrived, cache_vars, env_vars, side_vars >>

\* _rate_limit, "return await call_next(request)": the request is handed to
\* its endpoint.  What the endpoint does is followed in Spec.
CallNext(s) ==
    /\ req[s].pc = "admitted"
    /\ req' = [req EXCEPT ![s].pc = "handling"]
    /\ put_trace' = NoPut
    /\ response' = NoResponse
    /\ UNCHANGED << now, gate_vars, arrived, cache_vars, env_vars, side_vars >>

\* The endpoint has answered: the slot is free again.
Complete(s) ==
    /\ req[s].pc = "handling"
    /\ req' = [req EXCEPT ![s] = IdleRequest]
    /\ put_trace' = NoPut
    /\ response' = NoResponse
    /\ UNCHANGED << now, gate_vars, arrived, cache_vars, env_vars, side_vars >>

\* Time passes.  The clock stops at MaxTime unless a request still sleeps in
\* the gate.
Tick ==
    /\ \/ now < MaxTime
       \/ \E s \in Slots : req[s].pc = "sleeping" /\ now < req[s].wake_at
    /\ now' = now + 1
    /\ put_trace' = NoPut
    /\ response' = NoResponse
    /\ UNCHANGED << gate_vars, req, arrived, cache_vars, env_vars, side_vars >>

\* _startup: the browser is started.
Startup ==
    /\ browser_manager = "None"
    /\ browser_manager' = "started"
    /\ put_trace' = NoPut
    /\ response' = NoResponse
    /\ UNCHANGED << now, gate_vars, req, arrived, cache_vars, ors_api_key, side_vars >>

\* The environment loses ORS_API_KEY: os.getenv is read anew by every request.
UnsetOrsKey ==
    /\ ors_api_key = "key"
    /\ ors_api_key' = ""
    /\ put_trace' = NoPut
    /\ response' = NoResponse
    /\ UNCHANGED << now, gate_vars, req, arrived, cache_vars, browser_manager, side_vars >>

\* Something outside the service damages a cache file: its content no longer
\* parses.
Damage(f) ==
    /\ f \in Files(cache)
    /\ cache[f].content.kind = "json"
    /\ cache' = [cache EXCEPT ![f].content = Garbage(cache[f].content.size)]
    /\ put_trace' = NoPut
    /\ response' = NoResponse
    /\ UNCHANGED << now, gate_vars, req, arrived, wall, cache_hits_total,
                    cache_misses_total, env_vars, side_vars >>

\* ------------------------------------------------------------------------
\* The endpoints
\* ------------------------------------------------------------------------
\* What reading an existing cache file does: it succeeds or raises OSError.
ReadOutcomes == {"ok", "oserror"}

\* The times a file written now can be stamped with.
WriteTimes == {wall, wall + 1}

\* The handler of request s returns (or raises): the caller gets the response.
Reply(s, r) ==
    /\ response' = [r EXCEPT !.endpoint = req[s].endpoint]
    /\ req' = [req EXCEPT ![s] = IdleRequest]

\* An exception no handler catches leaves the endpoint: the server answers 500.
UnhandledError == 500

\* health
HealthStart(s) ==
    /\ req[s].pc = "admitted"
    /\ req[s].endpoint = "health"
    /\ Reply(s, [NoResponse EXCEPT !.status = 200, !.body = JsonBody(0)])
    /\ put_trace' = NoPut
    /\ UNCHANGED << now, gate_vars, arrived, cache_vars, env_vars, side_vars >>

\* inserate: "if browser_manager is None: raise HTTPException(503)", the
\* status of the exception raised inside the try block (0: none raised).
browser_check(bm) == IF bm = "None" THEN 503 ELSE 0

\* inserate: "except Exception as exc: raise HTTPException(500)" around the
\* try block: whatever was raised inside, HTTPException included, leaves as 500.
except_exception(raised_status) == 500

\* inserate up to "await get_inserate_klaz(**kwargs)".
InserateStart(s) ==
    /\ req[s].pc = "admitted"
    /\ req[s].endpoint = "inserate"
    /\ \E q \in Queries, rd \in ReadOutcomes :
         LET f == InserateFile[q]
             exists == f \in Files(cache)
             valid == exists /\ rd = "ok" /\ cache[f].content.kind = "json"
             bad == exists /\ ~valid
         IN /\ cache_hits_total' = IF exists THEN cache_hits_total + 1 ELSE cache_hits_total
            /\ cache' = IF bad THEN Remove(cache, f)
                        ELSE IF valid THEN read_file(cache, f, wall + 1)
                        ELSE cache
            /\ IF valid
               THEN Reply(s, [NoResponse EXCEPT
                        !.cache_file = f, !.status = 200, !.body = cache[f].content,
                        !.from_cache = TRUE, !.browser = browser_manager])
               ELSE IF browser_check(browser_manager) # 0
               THEN Reply(s, [NoResponse EXCEPT
                        !.cache_file = f, !.bad_entry = bad, !.browser = browser_manager,
                        !.status = except_exception(browser_check(browser_manager))])
               ELSE /\ req' = [req EXCEPT ![s].pc = "fetching", ![s].cache_file = f,
                                          ![s].bad_entry = bad]
                    /\ response' = NoResponse
    /\ put_trace' = NoPut
    /\ UNCHANGED << now, gate_vars, arrived, wall, cache_misses_total, env_vars, side_vars >>

\* The status a request answers with after its cache write failed with
\* OSError, were the error not caught.
write_error_propagates(status, failed) == IF failed THEN UnhandledError ELSE status

\* "try: write; _enforce_cache_limit()  except OSError: pass": the status the
\* endpoint goes on to answer with.
write_error_swallowed(status, failed) == status

\* The locals of the handler of request s, as far as the response records them.
Fetched(s) ==
    [NoResponse EXCEPT !.cache_file = req[s].cache_file, !.host = req[s].host,
                       !.dns = req[s].dns, !.bad_entry = req[s].bad_entry,
                       !.fetched = TRUE, !.browser = browser_manager]

\* The outcomes of the cache write in which OSError reaches the endpoint's
\* "except OSError".
WriteRaised(outcome) == outcome \in {"write_failed", "evict_failed"}

\* The part shared by the three endpoints after a successful fetch: write the
\* entry, enforce the limit, count the miss, return the response.
StoreAndReturn(s, status, body) ==
    \E t \in WriteTimes : \E r \in CachePut(cache, req[s].cache_file, body, t) :
        /\ cache' = r.cache
        /\ wall' = t
        /\ put_trace' = r.trace
        /\ cache_misses_total' = cache_misses_total + 1
        /\ Reply(s, [Fetched(s) EXCEPT
               !.status = write_error_swallowed(status, WriteRaised(r.trace.outcome)),
               !.body = body, !.write_error = WriteRaised(r.trace.outcome)])

\* The response is returned without touching the cache.
ReturnOnly(s, status, body) ==
    /\ Reply(s, [Fetched(s) EXCEPT !.status = status, !.body = body])
    /\ put_trace' = NoPut
    /\ UNCHANGED << cache, wall, cache_misses_total >>

\* inserate after "await get_inserate_klaz(**kwargs)".
InserateFinish(s) ==
    /\ req[s].pc = "fetching"
    /\ req[s].endpoint = "inserate"
    /\ \E out \in ScraperOutcomes :
         IF out.raised
         THEN ReturnOnly(s, except_exception(0), NoBody)
         ELSE StoreAndReturn(s, 200, out.body)
    /\ UNCHANGED << now, gate_vars, arrived, cache_hits_total, env_vars, side_vars >>

\* proxy / ors_proxy: "if cache_file.exists(): ... return
\* Response(content=cache_file.read_bytes())".  The bytes are returned as
\* they are; OSError from the read is not caught.
ServeCached(s, f, rd, host, dns) ==
    /\ cache_hits_total' = cache_hits_total + 1
    /\ cache' = IF rd = "ok" THEN read_file(cache, f, wall + 1) ELSE cache
    /\ IF rd = "ok"
       THEN Reply(s, [NoResponse EXCEPT
                !.cache_file = f, !.host = host, !.dns = dns, !.status = 200,
                !.body = cache[f].content, !.from_cache = TRUE,
                !.bad_entry = (cache[f].content.kind # "json")])
       ELSE Reply(s, [NoResponse EXCEPT
                !.cache_file = f, !.host = host, !.dns = dns,
                !.status = UnhandledError, !.bad_entry = TRUE])

\* The handler suspends in the call of the HTTP client.
AwaitHttp(s, f, host, dns) ==
    /\ req' = [req EXCEPT ![s].pc = "fetching", ![s].cache_file = f,
                          ![s].host = host, ![s].dns = dns]
    /\ response' = NoResponse
    /\ UNCHANGED << cache_hits_total, cache >>

\* proxy up to "await client.get(u, headers=headers)".
ProxyStart(s) ==
    /\ req[s].pc = "admitted"
    /\ req[s].endpoint = "proxy"
    /\ \E tg \in ProxyTargets, rd \in ReadOutcomes :
         IF ProxyFile[tg] # NoFile /\ ProxyFile[tg] \in Files(cache)
         THEN ServeCached(s, ProxyFile[tg], rd, tg.host, tg.dns)
         ELSE AwaitHttp(s, ProxyFile[tg], tg.host, tg.dns)
    /\ put_trace' = NoPut
    /\ UNCHANGED << now, gate_vars, arrived, wall, cache_misses_total,
                    env_vars, side_vars >>

\* Whatever the upstream answered is written to the cache file.
ProxyStoreAny(s, out) ==
    IF out.raised
    THEN ReturnOnly(s, 502, NoBody)
    ELSE IF req[s].cache_file # NoFile
    THEN StoreAndReturn(s, out.status, out.body)
    ELSE ReturnOnly(s, out.status, out.body)

\* proxy / ors_proxy after the await of the HTTP client: the response is
\* written to the cache when there is a cache file, the status is 200 and the
\* content type is JSON, and returned with the upstream status either way.
ProxyReturn(s, out) ==
    IF out.raised
    THEN ReturnOnly(s, 502, NoBody)
    ELSE IF req[s].cache_file # NoFile /\ out.status = 200 /\ out.body.kind = "json"
    THEN StoreAndReturn(s, out.status, out.body)
    ELSE ReturnOnly(s, out.status, out.body)

\* proxy after "await client.get(u, headers=headers)".
ProxyFinish(s) ==
    /\ req[s].pc = "fetching"
    /\ req[s].endpoint = "proxy"
    /\ \E out \in HttpOutcomes : ProxyReturn(s, out)
    /\ UNCHANGED << now, gate_vars, arrived, cache_hits_total, env_vars, side_vars >>

\* The key is looked at only when the cache has no entry for the request.
key_checked_on_miss(api_key, hit) == api_key = "" /\ ~hit

\* ors_proxy: "api_key = os.getenv("ORS_API_KEY"); if not api_key: raise
\* HTTPException(500)", the first statements of the handler: the check does
\* not depend on whether the cache holds an entry for the request.
key_missing(api_key, hit) == api_key = ""

\* ors_proxy up to "await client.request(...)".  The response records the
\* cache file of the request also when the handler ends before computing it.
OrsStart(s) ==
    /\ req[s].pc = "admitted"
    /\ req[s].endpoint = "ors"
    /\ \E q \in OrsQueries, rd \in ReadOutcomes :
         IF key_missing(ors_api_key, OrsFile[q] \in Files(cache))
         THEN /\ Reply(s, [NoResponse EXCEPT !.status = 500, !.cache_file = OrsFile[q]])
              /\ UNCHANGED << cache_hits_total, cache >>
         ELSE IF OrsFile[q] \in Files(cache)
         THEN ServeCached(s, OrsFile[q], rd, "api.openrouteservice.org", "public")
         ELSE AwaitHttp(s, OrsFile[q], "api.openrouteservice.org", "public")
    /\ put_trace' = NoPut
    /\ UNCHANGED << now, gate_vars, arrived, wall, cache_misses_total,
                    env_vars, side_vars >>

\* ors_proxy after "await client.request(...)".
OrsFinish(s) ==
    /\ req[s].pc = "fetching"
    /\ req[s].endpoint = "ors"
    /\ \E out \in HttpOutcomes : ProxyReturn(s, out)
    /\ UNCHANGED << now, gate_vars, arrived, cache_hits_total, env_vars, side_vars >>

\* ------------------------------------------------------------------------
\* Specifications
\* ------------------------------------------------------------------------
\* The endpoints and the cache.
Next ==
    \/ Startup
    \/ UnsetOrsKey
    \/ \E f \in Files(cache) : Damage(f)
    \/ \E s \in Slots : ArriveLate(s)
    \/ \E s \in Slots : HealthStart(s)
    \/ \E s \in Slots : InserateStart(s)
    \/ \E s \in Slots : InserateFinish(s)
    \/ \E s \in Slots : ProxyStart(s)
    \/ \E s \in Slots : ProxyFinish(s)
    \/ \E s \in Slots : OrsStart(s)
    \/ \E s \in Slots : OrsFinish(s)

Spec == Init /\ [][Next]_vars

\* The rate-limit middleware.
GateNext ==
    \/ Tick
    \/ \E s \in Slots : Arrive(s)
    \/ \E s \in Slots : GateResume(s)
    \/ \E s \in Slots : GateWake(s)
    \/ \E s \in Slots : CallNext(s)
    \/ \E s \in Slots : Complete(s)

GateSpec == Init /\ [][GateNext]_vars

\* The scheduling of the event loop: the clock advances, and a task that is
\* ready to run (a resumed waiter, an expired sleep, a call of the endpoint)
\* is run.
GateFairness ==
    /\ WF_vars(Tick)
    /\ \A s \in Slots : WF_vars(GateResume(s))
    /\ \A s \in Slots : WF_vars(GateWake(s))
    /\ \A s \in Slots : WF_vars(CallNext(s))

FairGateSpec == Init /\ [][GateNext]_vars /\ GateFairness

\* ------------------------------------------------------------------------
\* _cache_key on pairs of mappings
\* ------------------------------------------------------------------------
\* Keys of the mappings: one is a prefix of another.
MappingKeys == {<<"a">>, <<"a", "b">>, <<"b">>}

\* The string 1","b":"1 : unescaped, it would read as the end of one item and
\* the start of the next.
Injection == <<"1", "\"", ",", "\"", "b", "\"", ":", "\"", "1">>

\* A dict built in two insertion orders.
NestedAB == PyDict(<< << <<"a">>, None >>, << <<"b">>, PyInt(1) >> >>)
NestedBA == PyDict(<< << <<"b">>, PyInt(1) >>, << <<"a">>, None >> >>)

\* Values of the mappings: an int, the str of the same digits, a str full of
\* JSON punctuation, and a dict.
MappingValues == {PyInt(1), PyStr(<<"1">>), PyStr(Injection), NestedAB}

\* The dicts of at most MaxPairs items with distinct keys, in every insertion
\* order, and one that holds the nested dict in its other insertion order.
Mappings ==
    { PyDict(items) : items \in
        UNION { { it \in [1..n -> MappingKeys \X MappingValues] :
                    \A i, j \in 1..n : i # j => it[i][1] # it[j][1] }
                : n \in 0..MaxPairs } }
    \cup {PyDict(<< << <<"a">>, NestedBA >> >>)}

\* Python's == on the values: dicts are equal when they hold the same keys
\* with equal values, whatever the insertion order.
RECURSIVE PyEq(_, _)
PyEq(a, b) ==
    IF a.t # b.t THEN FALSE
    ELSE IF a.t = "dict"
    THEN /\ Len(a.d) = Len(b.d)
         /\ \A i \in 1..Len(a.d) : \E j \in 1..Len(b.d) :
              a.d[i][1] = b.d[j][1] /\ PyEq(a.d[i][2], b.d[j][2])
    ELSE a = b

KeyInit ==
    /\ ProgramInit
    /\ ors_api_key = "key"
    /\ key_in \in Mappings \X Mappings
    /\ key_out = <<>>
    /\ ExtIdle
    /\ RouteIdle
    /\ StatsIdle

\* _cache_key is applied to both mappings.
HashKeys ==
    /\ key_out = <<>>
    /\ key_out' = <<_cache_key(key_in[1]), _cache_key(key_in[2])>>
    /\ UNCHANGED << now, gate_vars, req, arrived, cache_vars, env_vars, put_trace,
                    response, key_in, ext_vars, route_vars, stats_vars >>

KeyNext == HashKeys

KeySpec == KeyInit /\ [][KeyNext]_vars

\* ------------------------------------------------------------------------
\* parse_listing_details
\* ------------------------------------------------------------------------
\* Largest number of application/ld+json blocks of a document.
MaxBlocks == 2

\* What a call of .get on a value that is no dict raises.
AttributeError == [t |-> "AttributeError", s |-> <<>>, n |-> 0, d |-> <<>>]

\* bool(v).  An exception is no value: it passes through every "or".
Truthy(v) ==
    CASE v.t = "null" -> FALSE
      [] v.t = "str" -> v.s # <<>>
      [] v.t = "int" -> v.n # 0
      [] v.t \in {"list", "dict"} -> v.d # <<>>
      [] OTHER -> TRUE

HasKey(v, k) == \E i \in 1..Len(v.d) : v.d[i][1] = k

\* v.get(k, default): AttributeError when v is no dict (or v itself was raised).
get(v, k, default) ==
    IF v.t # "dict" THEN AttributeError
    ELSE IF HasKey(v, k) THEN v.d[CHOOSE i \in 1..Len(v.d) : v.d[i][1] = k][2]
    ELSE default

\* a or b: b is evaluated only when a is falsy.
Or(a, b) == IF Truthy(a) THEN a ELSE b

\* isinstance(v, dict), isinstance(v, list), isinstance(v, str)
IsDict(v) == v.t = "dict"
IsList(v) == v.t = "list"
IsStr(v) == v.t = "str"

EmptyDict == PyDict(<<>>)

\* addr = obj.get("address") or obj.get("itemOffered", {}).get("address")
\*        or obj.get("offers", {}).get("seller", {}).get("address")
address(obj) ==
    Or(get(obj, "address", None),
       Or(get(get(obj, "itemOffered", EmptyDict), "address", None),
          get(get(get(obj, "offers", EmptyDict), "seller", EmptyDict), "address", None)))

\* addr.get("postalCode") or addr.get("postcode") or addr.get("zip")
PostalOf(addr) ==
    Or(get(addr, "postalCode", None), Or(get(addr, "postcode", None), get(addr, "zip", None)))

\* addr.get("addressLocality") or addr.get("city") or addr.get("town")
CityOf(addr) ==
    Or(get(addr, "addressLocality", None), Or(get(addr, "city", None), get(addr, "town", None)))

\* The value found last replaces the one held.
take_latest(held, found) == Or(found, held)

\* postal = (postal or ...), city = (city or ...): the value held is kept.
keep_first(held, found) == Or(held, found)

\* if isinstance(addr, dict): postal = ...; city = ...
ScanAddress(acc, addr) ==
    IF IsDict(addr)
    THEN [acc EXCEPT !.postal = keep_first(acc.postal, PostalOf(addr)),
                     !.city = keep_first(acc.city, CityOf(addr))]
    ELSE acc

\* if not image and (img := obj.get("image")): list -> img[0], str -> img
ScanImage(acc, obj) ==
    LET img == get(obj, "image", None)
    IN IF ~Truthy(acc.image) /\ Truthy(img)
       THEN IF IsList(img) THEN [acc EXCEPT !.image = img.d[1]]
            ELSE IF IsStr(img) THEN [acc EXCEPT !.image = img]
            ELSE acc
       ELSE acc

\* if not price: offers = obj.get("offers");
\*     if isinstance(offers, dict): price = offers.get("price") or price
ScanPrice(acc, obj) ==
    LET offers == get(obj, "offers", None)
    IN IF ~Truthy(acc.price) /\ IsDict(offers)
       THEN [acc EXCEPT !.price = Or(get(offers, "price", None), acc.price)]
       ELSE acc

\* The body of "for obj in items": an exception ends the function.
ScanObject(acc, obj) ==
    IF acc.state = "raised" \/ ~IsDict(obj) THEN acc
    ELSE IF address(obj) = AttributeError THEN [acc EXCEPT !.state = "raised"]
    ELSE ScanPrice(ScanImage(ScanAddress(acc, address(obj)), obj), obj)

RECURSIVE ScanItems(_, _)
ScanItems(acc, items) ==
    IF items = <<>> THEN acc ELSE ScanItems(ScanObject(acc, Head(items)), Tail(items))

\* The content of a script element: text that is no JSON, no text at all
\* (script.string is None), or the text of a JSON value.
InvalidBlock == [kind |-> "invalid", value |-> None]
EmptyBlock == [kind |-> "empty", value |-> None]
JsonBlock(v) == [kind |-> "json", value |-> v]

\* json.loads(script.string or "{}"), for a block that parses.
json_loads(block) == IF block.kind = "empty" THEN EmptyDict ELSE block.value

\* items = data if isinstance(data, list) else [data]
ItemsOf(data) == IF IsList(data) THEN data.d ELSE <<data>>

\* for script in soup.find_all("script", type="application/ld+json"):
\*     try: data = json.loads(...)  except json.JSONDecodeError: continue
RECURSIVE ScanBlocks(_, _)
ScanBlocks(acc, blocks) ==
    IF blocks = <<>> THEN acc
    ELSE IF Head(blocks).kind = "invalid" THEN ScanBlocks(acc, Tail(blocks))
    ELSE ScanBlocks(ScanItems(acc, ItemsOf(json_loads(Head(blocks)))), Tail(blocks))

\* str.strip(): leading and trailing blanks removed.
RECURSIVE LStrip(_)
LStrip(chars) ==
    IF chars # <<>> /\ Head(chars) = " " THEN LStrip(Tail(chars)) ELSE chars
RECURSIVE RStrip(_)
RStrip(chars) ==
    IF chars # <<>> /\ chars[Len(chars)] = " "
    THEN RStrip(SubSeq(chars, 1, Len(chars) - 1)) ELSE chars
strip(v) == PyStr(RStrip(LStrip(v.s)))

\* title: og:title content, else the title element's string.
TitleOf(doc) == IF ~Truthy(doc.og_title) THEN doc.title_tag ELSE doc.og_title

\* if not postal: if m := re.search(r"\b(\d{5})\b", html): postal = m.group(1)
\* text_postal is the first 5-digit token of the document, None without one.
PostalFallback(doc, postal) ==
    IF ~Truthy(postal) /\ doc.text_postal # None THEN doc.text_postal ELSE postal

\* parse_listing_details(html)
parse_listing_details(doc) ==
    LET start == [NoDetail EXCEPT !.image = doc.og_image]
        acc == ScanBlocks(start, doc.blocks)
    IN IF acc.state = "raised" THEN [NoDetail EXCEPT !.state = "raised"]
       ELSE [acc EXCEPT !.state = "returned",
                        !.title = IF IsStr(TitleOf(doc)) THEN strip(TitleOf(doc))
                                  ELSE TitleOf(doc),
                        !.postal = PostalFallback(doc, acc.postal)]

\* Values of the fields of the documents.
Postal1 == PyStr(<<"1">>)
Postal2 == PyStr(<<"2">>)
City1 == PyStr(<<"a">>)
City2 == PyStr(<<"b">>)
EmptyStr == PyStr(<<>>)
TextPostal == PyStr(<<"9", "9", "9", "9", "9">>)

\* Address objects: every key the extractor tries, values that are empty,
\* an address with a city only and one with a postal code only.
Addresses ==
    { PyDict(<< <<"postalCode", Postal1>>, <<"addressLocality", City1>> >>),
      PyDict(<< <<"postcode", Postal2>>, <<"town", City2>> >>),
      PyDict(<< <<"postalCode", EmptyStr>>, <<"zip", Postal2>>,
                <<"addressLocality", None>>, <<"city", City2>> >>),
      PyDict(<< <<"city", City1>> >>),
      PyDict(<< <<"postalCode", Postal2>> >>),
      PyDict(<< <<"postalCode", EmptyStr>>, <<"zip", EmptyStr>> >>) }

\* Objects that carry the address at one of the three paths.
Direct(a) == PyDict(<< <<"address", a>> >>)
ViaItem(a) == PyDict(<< <<"itemOffered", PyDict(<< <<"address", a>> >>)>> >>)
ViaSeller(a) ==
    PyDict(<< <<"offers", PyDict(<< <<"seller", PyDict(<< <<"address", a>> >>)>>,
                                    <<"price", PyStr(<<"5">>)>> >>)>> >>)

\* Valid JSON of unexpected shape: values that are no objects under
\* itemOffered, offers and offers.seller.
OddObjects ==
    { PyDict(<< <<"itemOffered", PyStr(<<"x">>)>> >>),
      PyDict(<< <<"itemOffered", None>> >>),
      PyDict(<< <<"offers", PyList(<< PyDict(<< <<"price", PyStr(<<"5">>)>> >>) >>)>> >>),
      PyDict(<< <<"offers", PyDict(<< <<"seller", PyStr(<<"x">>)>> >>)>> >>),
      PyDict(<< <<"address", PyStr(<<"a">>)>>, <<"itemOffered", PyStr(<<"x">>)>> >>) }

\* The application/ld+json blocks of the documents.
Blocks ==
    { InvalidBlock, EmptyBlock, JsonBlock(PyInt(5)),
      JsonBlock(PyList(<< PyInt(1), PyStr(<<"x">>) >>)) }
    \cup { JsonBlock(Direct(a)) : a \in Addresses }
    \cup { JsonBlock(o) : o \in OddObjects }
    \cup { JsonBlock(ViaItem(PyDict(<< <<"postcode", Postal2>>, <<"town", City2>> >>))),
           JsonBlock(ViaSeller(PyDict(<< <<"city", City1>> >>))),
           JsonBlock(PyList(<< Direct(PyDict(<< <<"city", City1>> >>)),
                               ViaItem(PyDict(<< <<"postalCode", Postal2>> >>)) >>)),
           JsonBlock(PyDict(<< <<"image", PyList(<< PyStr(<<"g">>) >>)>>,
                               <<"offers", PyDict(<< <<"price", PyStr(<<"5">>)>> >>)>> >>)) }

\* The meta tags and the title element of the documents.
Heads ==
    { [og_title |-> None, title_tag |-> None, og_image |-> None],
      [og_title |-> PyStr(<<" ", "T", " ">>), title_tag |-> PyStr(<<"t">>),
       og_image |-> PyStr(<<"g">>)],
      [og_title |-> None, title_tag |-> PyStr(<<"t", " ">>), og_image |-> None] }

\* The documents: a head, up to MaxBlocks blocks in document order, and
\* possibly a 5-digit token in the text.
Documents ==
    { [og_title |-> h.og_title, title_tag |-> h.title_tag, og_image |-> h.og_image,
       blocks |-> b, text_postal |-> tp]
        : h \in Heads, b \in UNION {[1..n -> Blocks] : n \in 0..MaxBlocks},
          tp \in {None, TextPostal} }

ExtractInit ==
    /\ ProgramInit
    /\ ors_api_key = "key"
    /\ KeyIdle
    /\ RouteIdle
    /\ StatsIdle
    /\ ext_in \in Documents
    /\ ext_out = NoDetail

\* The listing endpoint calls parse_listing_details on the document.
Extract ==
    /\ ext_out.state = "none"
    /\ ext_out' = parse_listing_details(ext_in)
    /\ UNCHANGED << now, gate_vars, req, arrived, cache_vars, env_vars, put_trace,
                    response, key_vars, ext_in, route_vars, stats_vars >>

ExtractNext == Extract

ExtractSpec == ExtractInit /\ [][ExtractNext]_vars

\* ------------------------------------------------------------------------
\* Route search: postal codes, fan-out scrape and merge
\* ------------------------------------------------------------------------
MaxSamples == 3
MaxResults == 2

RouteCodes == {"10115", "20095", "30159"}
AdUrls == {"/s-anzeige/1", "/s-anzeige/2"}
AdPrices == {10, 20}

\* A listing as the scraper returns it; the price tells two occurrences of
\* one URL apart.
Listings == [url : AdUrls, price : AdPrices]

\* What one scraper call can do: raise, or return a list of listings.
ScrapeRaised == [ok |-> FALSE, listings |-> <<>>]
ScrapeOutcomes ==
    {ScrapeRaised} \cup
    {[ok |-> TRUE, listings |-> l] :
        l \in UNION {[1..k -> Listings] : k \in 0..MaxResults}}

\* The postal codes of the samples along the route, in sample order.
SampleRuns == UNION {[1..k -> RouteCodes] : k \in 1..MaxSamples}

CodesOf(samples) == {samples[i] : i \in DOMAIN samples}

\* The postal codes are deduplicated into a set: the fan-out visits each
\* once, in no order the route fixes.
CodeOrders(codes) ==
    {q \in [1..Cardinality(codes) -> codes] : CodesOf(q) = codes}

\* Each listing is tagged with the postal code that produced it.
Tag(l, code) == [url |-> l.url, price |-> l.price, postal |-> code]
TagAll(ls, code) == [i \in DOMAIN ls |-> Tag(ls[i], code)]

\* The later occurrence of a URL replaces the one already merged.
last_wins(merged, e) ==
    IF \E i \in DOMAIN merged : merged[i].url = e.url
    THEN [i \in DOMAIN merged |-> IF merged[i].url = e.url THEN e ELSE merged[i]]
    ELSE Append(merged, e)

\* Deduplication by URL: the first occurrence wins.
first_wins(merged, e) ==
    IF \E i \in DOMAIN merged : merged[i].url = e.url
    THEN merged
    ELSE Append(merged, e)

RECURSIVE Merge(_, _)
Merge(merged, rest) ==
    IF rest = <<>> THEN merged
    ELSE Merge(first_wins(merged, Head(rest)), Tail(rest))

\* A failed call ends the fan-out.
abort_search(todo) == <<>>

\* A failed call is swallowed: that code is skipped, the others go on.
skip_code(todo) == Tail(todo)

RouteInit ==
    /\ ProgramInit
    /\ ors_api_key = "key"
    /\ KeyIdle
    /\ ExtIdle
    /\ StatsIdle
    /\ RouteIdle

\* Steps 1 to 5 have produced the samples' postal codes; they are
\* deduplicated and the fan-out begins.
RouteStart ==
    /\ route_pc = "idle"
    /\ \E samples \in SampleRuns :
         \E order \in CodeOrders(CodesOf(samples)) :
            /\ route_codes' = CodesOf(samples)
            /\ route_todo' = order
    /\ route_pc' = "scraping"
    /\ UNCHANGED << now, gate_vars, req, arrived, cache_vars, env_vars, put_trace,
                    response, key_vars, ext_vars, stats_vars, route_called,
                    route_log, route_merged >>

\* One scraper call of the fan-out, for the next postal code; after the last
\* one the returned listings are merged and the search completes.
RouteScrape ==
    /\ route_pc = "scraping"
    /\ route_todo # <<>>
    /\ \E out \in ScrapeOutcomes :
         LET code == Head(route_todo)
             rest == IF out.ok THEN Tail(route_todo) ELSE skip_code(route_todo)
             log  == IF out.ok THEN route_log \o TagAll(out.listings, code)
                     ELSE route_log
         IN  /\ route_called' =
                   Append(route_called,
                          [code |-> code, ok |-> out.ok, listings |-> out.listings])
             /\ route_todo' = rest
             /\ route_log' = log
             /\ IF rest = <<>>
                THEN /\ route_merged' = Merge(<<>>, log)
                     /\ route_pc' = "done"
                ELSE UNCHANGED << route_merged, route_pc >>
    /\ UNCHANGED << now, gate_vars, req, arrived, cache_vars, env_vars, put_trace,
                    response, key_vars, ext_vars, stats_vars, route_codes >>

RouteNext ==
    \/ RouteStart
    \/ RouteScrape

RouteSpec == RouteInit /\ [][RouteNext]_vars

\* ------------------------------------------------------------------------
\* Visitor statistics: the /stats endpoint
\* ------------------------------------------------------------------------
MaxStatsRequests == 4

\* X-Forwarded-For as the requests carry it ("" when the header is absent)
\* and the hosts the connections come from.
ForwardedFor == {"", "1.2.3.4", "5.6.7.8"}
ClientHosts == {"testclient", "1.2.3.4", "10.0.0.9"}

\* The address is always the connection's host.
connection_host(header, host) == host

\* The client address: X-Forwarded-For when present, else the client host.
client_address(header, host) == IF header # "" THEN header ELSE host

\* Visitors are kept as hashes of their address; the hash is injective.
AddressHash(addr) == << "hash", addr >>

StatsInit ==
    /\ ProgramInit
    /\ ors_api_key = "key"
    /\ KeyIdle
    /\ ExtIdle
    /\ RouteIdle
    /\ StatsIdle

\* GET /stats: the caller is added to the visitors and their number reported.
StatsRequest ==
    /\ stats_count < MaxStatsRequests
    /\ \E header \in ForwardedFor, host \in ClientHosts :
         LET visitors ==
                stats_visitors \cup {AddressHash(client_address(header, host))}
         IN  /\ stats_visitors' = visitors
             /\ stats_reply' = Cardinality(visitors)
             /\ stats_last' = [header |-> header, host |-> host]
             /\ stats_seen' = stats_seen \cup {[header |-> header, host |-> host]}
    /\ stats_count' = stats_count + 1
    /\ UNCHANGED << now, gate_vars, req, arrived, cache_vars, env_vars, put_trace,
                    response, key_vars, ext_vars, route_vars >>

StatsNext == StatsRequest

StatsSpec == StatsInit /\ [][StatsNext]_vars

\* ------------------------------------------------------------------------
\* Properties
\* ------------------------------------------------------------------------
\* C1. Rate spacing: any two consecutive admissions through the middleware
\* (consecutive values written to _last_request) are at least
\* RATE_LIMIT_SECONDS apart, whatever the number and interleaving of requests.
C1_RateSpacing ==
    Len(admissions) = 2 => admissions[2] - admissions[1] >= RateLimitTicks

\* Two admissions were recorded, the second by a request that had queued for
\* the lock, while another request is still waiting for it.
C1_Witness ==
    /\ Len(admissions) = 2
    /\ rate_waiters # <<>>
    /\ \E s \in Slots : req[s].pc = "admitted"

\* C2. Cache bound: after a cache write followed by _enforce_cache_limit, for
\* entries of any size, the sizes of the entries in the cache directory sum to
\* at most CACHE_LIMIT.
C2_CacheBound ==
    put_trace.outcome = "ok" => _current_cache_size(cache) <= CACHE_LIMIT

\* An entry larger than the limit was written next to other entries, and
\* eviction ran.
C2_Witness ==
    /\ put_trace.outcome = "ok"
    /\ put_trace.before[put_trace.file].content.size > CACHE_LIMIT
    /\ Cardinality(Files(put_trace.before)) >= 2

\* The size of directory c without the entries fs.
SizeWithout(c, fs) == SumSizes(c, Files(c) \ fs)

FirstEvicted(n) == {put_trace.evicted[i] : i \in 1..n}

\* C3. Eviction order: eviction removes entries in ascending order of
\* modification time and stops as soon as the total is within the limit: no
\* entry is deleted while an entry with an older modification time remains,
\* none is deleted once the total is within the limit, and the entries that
\* are not deleted are retained as they were.
C3_EvictionOrder ==
    put_trace.outcome = "ok" =>
        /\ \A i \in 1..Len(put_trace.evicted) :
             /\ \A g \in Files(put_trace.before) \ FirstEvicted(i) :
                  put_trace.before[g].mtime >= put_trace.before[put_trace.evicted[i]].mtime
             /\ SizeWithout(put_trace.before, FirstEvicted(i - 1)) > CACHE_LIMIT
        /\ Files(cache) = Files(put_trace.before) \ FirstEvicted(Len(put_trace.evicted))
        /\ \A g \in Files(cache) : cache[g] = put_trace.before[g]

\* Eviction removed an older entry and retained a newer one.
C3_Witness ==
    /\ put_trace.outcome = "ok"
    /\ put_trace.evicted # <<>>
    /\ \E g \in Files(cache) :
         put_trace.before[g].mtime > put_trace.before[put_trace.evicted[1]].mtime

\* C4. A cache entry that exists but cannot be read or parsed is never
\* surfaced, on any cache-bearing endpoint: the request is treated as a miss,
\* the file is deleted, the upstream call is made and the caller receives the
\* fresh result.  (Stated for requests whose upstream call can be made: the
\* browser, where the endpoint needs it, is there.)
C4_CorruptEntryIsMiss ==
    (response.bad_entry /\ response.browser # "None") =>
        /\ response.fetched
        /\ ~response.from_cache

\* C5. Resource not ready: a listing search that misses the cache while
\* browser_manager is None is answered 503, not the 500 of scraper errors.
C5_BrowserUnavailableIs503 ==
    (response.endpoint = "inserate" /\ response.browser = "None" /\ ~response.from_cache)
        => response.status = 503

\* C6. Proxy host allow-list: no outbound fetch is issued for a /proxy request
\* whose host is not in PROXY_ALLOW_HOSTS, and it is answered 403; a request
\* whose host is in the list and resolves to a public address is fetched,
\* unless served from the cache.
C6_ProxyAllowList ==
    /\ \A s \in Slots :
         (req[s].endpoint = "proxy" /\ req[s].pc = "fetching")
            => req[s].host \in PROXY_ALLOW_HOSTS
    /\ (response.endpoint = "proxy" /\ response.host \notin PROXY_ALLOW_HOSTS)
            => (response.status = 403 /\ ~response.fetched)
    /\ (response.endpoint = "proxy" /\ response.host \in PROXY_ALLOW_HOSTS
          /\ response.dns = "public")
            => (response.fetched \/ response.from_cache)

\* C7. Proxy private-address rejection: no outbound fetch is issued for a
\* /proxy request whose allow-listed host resolves to a private or loopback
\* address, and it is answered 403.
C7_ProxyPrivateAddress ==
    /\ \A s \in Slots :
         (req[s].endpoint = "proxy" /\ req[s].pc = "fetching"
            /\ req[s].host \in PROXY_ALLOW_HOSTS)
            => req[s].dns # "private"
    /\ (response.endpoint = "proxy" /\ response.host \in PROXY_ALLOW_HOSTS
          /\ response.dns = "private")
            => (response.status = 403 /\ ~response.fetched)

\* C8. Admission liveness: every request that reaches the rate gate is
\* eventually admitted and handed to its endpoint; the gate only delays.
C8_AdmissionLiveness ==
    \A s \in Slots :
        (req[s].pc \in {"queued", "sleeping", "admitted"}) ~> (req[s].pc = "handling")

\* A request is with its endpoint while another still queues for the lock.
C8_Witness ==
    /\ \E s \in Slots : req[s].pc = "handling"
    /\ \E s \in Slots : req[s].pc = "queued"

\* C9. Cache write failure is swallowed: when the write of the entry or the
\* eviction after it fails with an I/O error after a successful fetch, the
\* endpoint still returns the fetched response with its normal status.
C9_WriteFailureSwallowed ==
    response.write_error =>
        /\ response.status = 200
        /\ response.fetched
        /\ response.body.kind = "json"
        /\ response.body.size \in BodySizes

\* The eviction after the write of a nominatim entry failed.
C9_Witness ==
    /\ response.write_error
    /\ response.endpoint = "proxy"
    /\ put_trace.outcome = "evict_failed"

\* C10. Cache key determinism: two mappings with the same key/value pairs get
\* the same key whatever their insertion order, and two mappings that differ
\* in a key or a value get different keys (the digest being injective).
C10_CacheKeyDeterminism ==
    key_out # <<>> => (PyEq(key_in[1], key_in[2]) <=> key_out[1] = key_out[2])

\* Two mappings with the same pairs in different insertion orders were hashed.
C10_Witness ==
    /\ key_out # <<>>
    /\ key_in[1] # key_in[2]
    /\ PyEq(key_in[1], key_in[2])

\* The objects of the document in document order: the elements of the blocks
\* that parse, lists flattened.
RECURSIVE ObjectsOf(_)
ObjectsOf(blocks) ==
    IF blocks = <<>> THEN <<>>
    ELSE (IF Head(blocks).kind = "invalid" THEN <<>>
          ELSE IF Head(blocks).kind = "empty" THEN <<EmptyDict>>
          ELSE IF Head(blocks).value.t = "list" THEN Head(blocks).value.d
          ELSE <<Head(blocks).value>>) \o ObjectsOf(Tail(blocks))

\* No title, no image, no 5-digit token, and no block that holds an object
\* with a key.
NoSignal(doc) ==
    /\ doc.og_title = None /\ doc.title_tag = None /\ doc.og_image = None
    /\ doc.text_postal = None
    /\ \A i \in 1..Len(ObjectsOf(doc.blocks)) :
          ObjectsOf(doc.blocks)[i].t # "dict" \/ ObjectsOf(doc.blocks)[i].d = <<>>

\* C11. Extractor robustness: parse_listing_details never raises, whatever
\* the document and its application/ld+json blocks hold (invalid JSON, JSON
\* values that are no objects, values that are no objects under itemOffered,
\* offers or offers.seller), and with no signal present every field is null.
C11_ExtractorNeverRaises ==
    ext_out.state # "none" =>
        /\ ext_out.state = "returned"
        /\ NoSignal(ext_in) =>
              /\ ext_out.title = None /\ ext_out.image = None /\ ext_out.postal = None
              /\ ext_out.city = None /\ ext_out.price = None

\* The first of the keys under which addr holds a non-empty value.
FirstField(addr, keys) ==
    IF \E k \in 1..Len(keys) : Truthy(get(addr, keys[k], None))
    THEN get(addr, keys[CHOOSE k \in 1..Len(keys) :
                     /\ Truthy(get(addr, keys[k], None))
                     /\ \A j \in 1..(k - 1) : ~Truthy(get(addr, keys[j], None))], None)
    ELSE None

\* The value of the first object, in document order, whose address holds a
\* non-empty value under one of the keys; None when there is no such object.
FirstResolved(doc, keys) ==
    LET objs == ObjectsOf(doc.blocks)
        Yields(i) == /\ IsDict(objs[i])
                     /\ IsDict(address(objs[i]))
                     /\ Truthy(FirstField(address(objs[i]), keys))
    IN IF \E i \in 1..Len(objs) : Yields(i)
       THEN FirstField(address(objs[CHOOSE i \in 1..Len(objs) :
                          Yields(i) /\ \A j \in 1..(i - 1) : ~Yields(j)]), keys)
       ELSE None

PostalKeys == <<"postalCode", "postcode", "zip">>
CityKeys == <<"addressLocality", "city", "town">>

\* C12. Extractor field priority: postal code and city are resolved
\* independently, each the first non-empty value in document order (postal
\* under postalCode, then postcode, then zip; city under addressLocality, then
\* city, then town); a later block never overwrites it; the 5-digit token of
\* the text is the postal code only when no block yielded one.
C12_FieldPriority ==
    ext_out.state = "returned" =>
        /\ IF Truthy(FirstResolved(ext_in, PostalKeys))
           THEN ext_out.postal = FirstResolved(ext_in, PostalKeys)
           ELSE IF ext_in.text_postal # None
           THEN ext_out.postal = ext_in.text_postal
           ELSE ~Truthy(ext_out.postal)
        /\ IF Truthy(FirstResolved(ext_in, CityKeys))
           THEN ext_out.city = FirstResolved(ext_in, CityKeys)
           ELSE ~Truthy(ext_out.city)

\* Both blocks hold a postal code and a city, under different keys and with
\* different values, and the text holds a 5-digit token: the values of the
\* first block are returned.
C12_Witness ==
    /\ ext_out.state = "returned"
    /\ Len(ext_in.blocks) = 2
    /\ Truthy(PostalOf(address(ext_in.blocks[1].value)))
    /\ Truthy(PostalOf(address(ext_in.blocks[2].value)))
    /\ PostalOf(address(ext_in.blocks[1].value)) # PostalOf(address(ext_in.blocks[2].value))
    /\ CityOf(address(ext_in.blocks[1].value)) # CityOf(address(ext_in.blocks[2].value))
    /\ ext_in.text_postal = TextPostal
    /\ ext_out.postal = PostalOf(address(ext_in.blocks[1].value))
    /\ ext_out.city = CityOf(address(ext_in.blocks[1].value))

\* C13. Eager configuration check: with ORS_API_KEY missing, a request to the
\* ORS proxy ends in a server error (500) without an outbound call and without
\* touching the cache, whether or not the cache holds an entry for it.
C13_EagerKeyCheck ==
    [][\A s \in Slots :
          (req[s].pc = "admitted" /\ req[s].endpoint = "ors" /\ ors_api_key = ""
             /\ req'[s] # req[s])
          => /\ req'[s].pc = "idle"
             /\ response'.endpoint = "ors"
             /\ response'.status = 500
             /\ ~response'.fetched
             /\ ~response'.from_cache
             /\ cache' = cache
             /\ cache_hits_total' = cache_hits_total]_vars

\* An ORS request was refused for the missing key although the cache holds
\* the entry of that request.
C13_Witness ==
    /\ ors_api_key = ""
    /\ response.endpoint = "ors"
    /\ response.status = 500
    /\ response.cache_file \in Files(cache)

\* C14. Uniform gating: a request of any endpoint is handed to its handler
\* only after the one global gate admitted it, and every admission, whatever
\* the endpoint, is stamped into the same _last_request.
C14_UniformGating ==
    [][\A s \in Slots :
          /\ (req[s].pc # "admitted" /\ req'[s].pc = "admitted")
                => /\ _last_request' = now'
                   /\ admissions' # <<>>
                   /\ admissions'[Len(admissions')] = now'
                   /\ Len(admissions) = 2 => admissions'[1] = admissions[2]
                   /\ Len(admissions) < 2 => admissions' = Append(admissions, now')
          /\ (req[s].pc # "handling" /\ req'[s].pc = "handling")
                => req[s].pc = "admitted"]_vars

\* A health check is with its handler after it was admitted behind a request
\* of another endpoint.
C14_Witness ==
    /\ Len(admissions) = 2
    /\ \E s, r \in Slots :
         /\ req[s].endpoint = "health" /\ req[s].pc = "handling"
         /\ req[r].endpoint = "inserate" /\ req[r].pc = "handling"

UrlsOf(ls) == {ls[i].url : i \in DOMAIN ls}

\* The position of the first occurrence of a URL in merge order.
FirstAt(log, url) ==
    CHOOSE i \in DOMAIN log :
        /\ log[i].url = url
        /\ \A j \in 1..(i - 1) : log[j].url # url

\* C15. Route-search merge deduplication: the merged result holds exactly one
\* entry per listing URL that was returned, and that entry is the first
\* occurrence in merge order, tagged with the postal code of the query that
\* first produced it.
C15_MergeDedup ==
    route_pc = "done" =>
        /\ \A i, j \in DOMAIN route_merged :
              route_merged[i].url = route_merged[j].url => i = j
        /\ UrlsOf(route_merged) = UrlsOf(route_log)
        /\ \A i \in DOMAIN route_merged :
              route_merged[i] = route_log[FirstAt(route_log, route_merged[i].url)]

\* Two postal codes produced the same URL with different content, and the
\* merge dropped an occurrence.
C15_Witness ==
    /\ route_pc = "done"
    /\ Len(route_merged) < Len(route_log)
    /\ \E i, j \in DOMAIN route_log :
         /\ i < j
         /\ route_log[i].url = route_log[j].url
         /\ route_log[i].postal # route_log[j].postal
         /\ route_log[i].price # route_log[j].price

\* C16. Partial fan-out failure: a completed route search has called the
\* scraper exactly once for every unique postal code, whether or not earlier
\* calls failed, and its result holds the listings of exactly the calls
\* that succeeded.
C16_PartialFanout ==
    route_pc = "done" =>
        /\ {route_called[i].code : i \in DOMAIN route_called} = route_codes
        /\ Len(route_called) = Cardinality(route_codes)
        /\ UrlsOf(route_merged) =
              UNION {UrlsOf(route_called[i].listings) :
                        i \in {k \in DOMAIN route_called : route_called[k].ok}}
        /\ \A i \in DOMAIN route_merged :
              \E k \in DOMAIN route_called :
                 /\ route_called[k].ok
                 /\ route_called[k].code = route_merged[i].postal

\* The first call failed, a later one succeeded, and the search completed
\* with its listings.
C16_Witness ==
    /\ route_pc = "done"
    /\ Len(route_called) = 3
    /\ ~route_called[1].ok
    /\ route_called[2].ok /\ route_called[2].listings # <<>>
    /\ ~route_called[3].ok
    /\ route_merged # <<>>

\* The distinct client addresses among the /stats requests made so far.
SeenAddresses ==
    {IF r.header # "" THEN r.header ELSE r.host : r \in stats_seen}

InSection == {s \in Slots : req[s].pc = "sleeping"}

\* C18. Gate mutual exclusion: at most one request at a time is inside the
\* critical section of the rate gate, and the lock is held for as long as it
\* is; a request that arrives while the section is occupied waits in the
\* queue of the lock; _last_request is written only by the request in the
\* section, and the new admission time is written in the step that releases
\* the section.
C18_MutualExclusion ==
    /\ [](/\ Cardinality(InSection) <= 1
          /\ rate_locked <=> InSection # {}
          /\ \A s \in Slots :
                req[s].pc = "queued" <=>
                   \E i \in DOMAIN rate_waiters : rate_waiters[i] = s
          /\ \A i, j \in DOMAIN rate_waiters :
                rate_waiters[i] = rate_waiters[j] => i = j)
    /\ [][/\ \A s \in Slots :
               (rate_locked /\ req[s].pc = "idle" /\ req'[s].pc # "idle")
                  => (req'[s].pc = "queued" /\ _last_request' = _last_request)
          /\ (rate_locked /\ ~rate_locked')
                => /\ _last_request' = now'
                   /\ \A s \in InSection : req'[s].pc = "admitted"
          /\ (rate_locked /\ _last_request' # _last_request)
                => /\ ~rate_locked'
                   /\ \A s \in Slots :
                         req'[s].pc # req[s].pc => s \in InSection]_vars

\* One request sleeps in the section while two others wait for the lock.
C18_Witness ==
    /\ rate_locked
    /\ Cardinality(InSection) = 1
    /\ Len(rate_waiters) = 2

\* The response of a request that missed and fetched a result to be cached.
FetchedOnMiss(r) ==
    /\ r.fetched
    /\ r.status = 200
    /\ r.body.kind = "json"
    /\ r.cache_file # NoFile

\* The response of a request that completed successfully on a miss and wrote
\* its entry.
CompletedMiss(r) == FetchedOnMiss(r) /\ ~r.write_error

\* Write-through: the entry of a request that just completed on a miss holds
\* the content the request returned, unless the eviction after the write
\* removed it.
WriteThrough ==
    (/\ CompletedMiss(response)
     /\ \A i \in DOMAIN put_trace.evicted : put_trace.evicted[i] # response.cache_file)
       => /\ response.cache_file \in Files(cache)
          /\ cache[response.cache_file].content = response.body

\* The step in which the handler of request s runs up to its cache lookup
\* and beyond: it answers, or suspends in the scraper or the HTTP client.
LookupStep(s) ==
    /\ req[s].pc = "admitted"
    /\ req[s].endpoint \in {"inserate", "proxy", "ors"}
    /\ req'[s].pc # "admitted"

\* The cache file of the request of a lookup step and whether the handler
\* found it unreadable.
LookupFile(s) ==
    IF req'[s].pc = "fetching" THEN req'[s].cache_file ELSE response'.cache_file
LookupFailed(s) ==
    IF req'[s].pc = "fetching" THEN req'[s].bad_entry ELSE response'.bad_entry

\* The request is answered in this step from the cache, with the content of
\* the entry, without an outbound call and without touching the cache.
AnsweredFromCache(s) ==
    /\ req'[s].pc = "idle"
    /\ response'.from_cache
    /\ ~response'.fetched
    /\ response'.status = 200
    /\ response'.body = cache[LookupFile(s)].content
    /\ cache' = cache

\* A lookup that finds the entry of an earlier completed miss: the file is
\* there (not evicted), it reads and it parses.
FindsEntry(s) ==
    /\ LookupStep(s)
    /\ LookupFile(s) \in Files(cache)
    /\ cache[LookupFile(s)].content.kind = "json"
    /\ ~LookupFailed(s)

\* C19, as stated.  Write-through then hit: once a request for parameters P
\* has completed successfully on a miss, its entry holds the content it
\* returned and keeps holding that content until it is evicted, and every
\* later request for P that finds the entry is answered from the cache with
\* it, without calling the scraper or the upstream service.
C19_SameContentUntilEvicted ==
    /\ []WriteThrough
    /\ [][/\ \A f \in Files(cache) \cap Files(cache') :
               (cache[f].content.kind = "json" /\ cache'[f].content.kind = "json")
                  => cache'[f].content = cache[f].content
          /\ \A s \in Slots : FindsEntry(s) => AnsweredFromCache(s)]_vars

\* C19, amended.  Write-through then hit: the entry of a request that
\* completed successfully on a miss holds the content it returned; the
\* content of an entry is replaced only by another request for the same
\* parameters that missed and fetched, with the content that request returns;
\* and every request that finds the entry, on the ORS proxy with the API key
\* configured, is answered from the cache with the content of the entry,
\* without calling the scraper or the upstream service.
C19_WriteThroughThenHit ==
    /\ []WriteThrough
    /\ [][/\ \A f \in Files(cache) \cap Files(cache') :
               (/\ cache[f].content.kind = "json"
                /\ cache'[f].content.kind = "json"
                /\ cache'[f].content # cache[f].content)
                  => /\ FetchedOnMiss(response')
                     /\ response'.cache_file = f
                     /\ response'.body = cache'[f].content
          /\ \A s \in Slots :
               (FindsEntry(s) /\ (req[s].endpoint = "ors" => ors_api_key # ""))
                  => AnsweredFromCache(s)]_vars

\* An ORS request was answered from the cache after two requests had
\* completed on a miss.
C19_Witness ==
    /\ response.from_cache
    /\ response.endpoint = "ors"
    /\ response.status = 200
    /\ response.body = JsonBody(5)
    /\ cache_misses_total = 2
    /\ cache_hits_total = 1

\* The response of a request whose upstream call failed: the scraper or the
\* HTTP client raised, or the upstream response was not 200 with JSON content.
FailedFetch(r) ==
    /\ r.fetched
    /\ r.status # 200 \/ r.body.kind # "json"

\* inserate deletes the entry it cannot read or parse before it calls the
\* scraper (cache_file.unlink at the lookup); the response records that the
\* handler found its entry unreadable.
DeletedAtLookup(r) == r.endpoint = "inserate" /\ r.bad_entry

\* C20, as stated.  Entries are created only by successful fetches: a request
\* whose upstream call fails creates no cache entry and deletes none; the set
\* and content of the cache entries are unchanged by it, in the step that ends
\* it and in what it did before its upstream call.
C20_FailedRequestChangesNothing ==
    [][FailedFetch(response') =>
          /\ cache' = cache
          /\ ~DeletedAtLookup(response')]_vars

\* C20, amended.  Entries are created only by successful fetches: a request
\* whose upstream call fails creates no cache entry and changes none, and the
\* only entry a request deletes before its upstream call is, on the listing
\* search, the entry for its own parameters that it found unreadable or
\* unparsable at lookup.
C20_NoEntryFromFailedFetch ==
    [][/\ FailedFetch(response') => cache' = cache
       /\ \A s \in Slots :
            LookupStep(s) =>
               \/ cache' = cache
               \/ /\ req[s].endpoint = "inserate"
                  /\ LookupFailed(s)
                  /\ LookupFile(s) \in Files(cache)
                  /\ cache' = Remove(cache, LookupFile(s))]_vars

\* A listing search found its entry unreadable, deleted it, and its scraper
\* call failed; an entry of another request is still there.
C20_Witness ==
    /\ FailedFetch(response)
    /\ response.endpoint = "inserate"
    /\ response.status = 500
    /\ response.bad_entry
    /\ Files(cache) # {}
    /\ cache_misses_total = 2

\* A file listed by eviction disappeared before eviction came to stat or
\* unlink it.
DeletionRace == put_trace.outcome \in {"evict_failed", "raced"}

\* C21. Eviction tolerates deletion races: when a cache file listed by
\* eviction disappears before eviction stats or unlinks it, the request does
\* not fail and eviction still removes the remaining oldest entries until the
\* total is within the limit or no entries remain.
C21_EvictionToleratesRaces ==
    DeletionRace =>
        /\ response.status = 200
        /\ response.fetched
        /\ \/ _current_cache_size(cache) <= CACHE_LIMIT
           \/ Files(cache) = {}

\* inserate counts the hit as soon as the cache file exists, before the entry
\* is read (cache_hits_total += 1 inside the try of the lookup); the response
\* records that the handler found the file and could not use it.
HitCountedAtLookup(r) == r.endpoint = "inserate" /\ r.bad_entry

\* C22. Hit/miss accounting: a listing search that returns a successful
\* response has incremented exactly one of cache_hits_total and
\* cache_misses_total, exactly once: the hit counter if and only if it was
\* served from the cache, the miss counter if and only if it was served by
\* the scraper.
C22_HitMissAccounting ==
    [][(response'.endpoint = "inserate" /\ response'.status = 200) =>
          IF response'.from_cache
          THEN /\ ~response'.fetched
               /\ cache_hits_total' = cache_hits_total + 1
               /\ cache_misses_total' = cache_misses_total
          ELSE /\ response'.fetched
               /\ cache_misses_total' = cache_misses_total + 1
               /\ cache_hits_total' = cache_hits_total
               /\ ~HitCountedAtLookup(response')]_vars

\* C23. Cache hits do not change the cache: a request served from a cache
\* entry leaves the set of entries, their contents and their modification
\* times unchanged and runs no eviction; the modification time of an entry,
\* by which eviction orders the entries, changes only when a request that
\* fetched writes that entry, never when it is read.
C23_HitsLeaveCacheUnchanged ==
    [][/\ response'.from_cache =>
             /\ cache' = cache
             /\ wall' = wall
             /\ put_trace' = NoPut
             /\ cache_misses_total' = cache_misses_total
       /\ \A f \in Files(cache) \cap Files(cache') :
             cache'[f].mtime # cache[f].mtime =>
                /\ response'.fetched
                /\ response'.cache_file = f
                /\ put_trace'.file = f]_vars

\* The oldest of two entries was served from the cache: it is still the
\* oldest.
C23_Witness ==
    /\ response.from_cache
    /\ response.status = 200
    /\ ~response.bad_entry
    /\ response.cache_file \in Files(cache)
    /\ \E g \in Files(cache) : cache[g].mtime > cache[response.cache_file].mtime

====
